---------------------------- MODULE Spec2Model ----------------------------
(***************************************************************************)
(* Plant Scope AI -- ML service (src/ml_service/app.py).                   *)
(*                                                                         *)
(* The model covers the dual-model arbitration (smart_classify), the       *)
(* remote reply parsing of classify_with_gemini_vision, the treatment      *)
(* advice of /analyze and the request handlers, with the awaits of the     *)
(* handlers as the points where requests interleave.                       *)
(*                                                                         *)
(* Text is modelled character by character: a Python str is a sequence of  *)
(* one-character strings.  The em dash U+2014 of the composed labels is    *)
(* the single character written EmDash, and the backtick of a code fence   *)
(* the single character written Backtick.                                  *)
(*                                                                         *)
(* Percentages are kept in hundredths of a percent (85.5 % is 8550), the   *)
(* precision round(..., 2) leaves on the local confidence.                 *)
(*                                                                         *)
(* Intermediate values are passed as operator parameters rather than bound *)
(* by LET.                                                                 *)
(***************************************************************************)
EXTENDS Integers, Sequences, FiniteSets, TLC

(***************************************************************************)
(* Python str operations used by the service                               *)
(***************************************************************************)
EmDash == "EMDASH"
Backtick == "BACKTICK"

SetMin(S) == CHOOSE i \in S : \A j \in S : i <= j
SetMax(S) == CHOOSE i \in S : \A j \in S : i >= j

UpperChars == <<"A","B","C","D","E","F","G","H","I","J","K","L","M",
                "N","O","P","Q","R","S","T","U","V","W","X","Y","Z">>
LowerChars == <<"a","b","c","d","e","f","g","h","i","j","k","l","m",
                "n","o","p","q","r","s","t","u","v","w","x","y","z">>

\* str.lower() on one character
lower_char(c) ==
    IF \E i \in 1..26 : UpperChars[i] = c
    THEN LowerChars[CHOOSE i \in 1..26 : UpperChars[i] = c]
    ELSE c

\* str.lower()
str_lower(s) == [i \in 1..Len(s) |-> lower_char(s[i])]

\* s[i:] for 0 <= i (Python slice: empty when i is past the end)
str_from(s, i) == IF i >= Len(s) THEN <<>> ELSE SubSeq(s, i + 1, Len(s))

\* s.startswith(p)
str_startswith(s, p) == Len(p) <= Len(s) /\ SubSeq(s, 1, Len(p)) = p

\* the 0-based positions at which sub occurs in s
str_occurrences(s, sub) ==
    {i \in 0..(Len(s) - Len(sub)) : SubSeq(s, i + 1, i + Len(sub)) = sub}

\* sub in s
str_contains(s, sub) == str_occurrences(s, sub) # {}

FirstOrMinus1(occ) == IF occ = {} THEN -1 ELSE SetMin(occ)

\* s.find(sub, start): the first occurrence at or after start, else -1
str_find(s, sub, start) ==
    FirstOrMinus1({i \in str_occurrences(s, sub) : i >= start})

Whitespace == {" ", "\n", "\t", "\r"}

StripSpan(s, keep) ==
    IF keep = {} THEN <<>> ELSE SubSeq(s, SetMin(keep), SetMax(keep))

\* s.strip()
str_strip(s) == StripSpan(s, {i \in 1..Len(s) : s[i] \notin Whitespace})

SplitAt(s, sep, a, b) ==
    IF b = -1 THEN str_from(s, a + Len(sep)) ELSE SubSeq(s, a + Len(sep) + 1, b)

SplitAfter(s, sep, a) == SplitAt(s, sep, a, str_find(s, sep, a + Len(sep)))

\* s.split(sep)[1]: the text between the first and the second occurrence of
\* sep (to the end when there is no second one).  Only used when sep in s.
str_split_second(s, sep) == SplitAfter(s, sep, str_find(s, sep, 0))

Digits == <<"0","1","2","3","4","5","6","7","8","9">>
IsDigit(c) == \E i \in 1..10 : Digits[i] = c
DigitValue(c) == (CHOOSE i \in 1..10 : Digits[i] = c) - 1
AllDigits(s) == \A i \in 1..Len(s) : IsDigit(s[i])

\* str(i) for an int i >= 0
RECURSIVE str_of_nat(_)
str_of_nat(i) ==
    IF i < 10 THEN <<Digits[i + 1]>>
    ELSE str_of_nat(i \div 10) \o <<Digits[(i % 10) + 1]>>

\* the value of a run of digits
RECURSIVE nat_of_digits(_)
nat_of_digits(s) ==
    IF s = <<>> THEN 0
    ELSE 10 * nat_of_digits(SubSeq(s, 1, Len(s) - 1)) + DigitValue(s[Len(s)])

(***************************************************************************)
(* Python values as the JSON decoder produces them.  A value is a record   *)
(* [kind, s, items]: kind "str" with its characters in s; kind "num" with  *)
(* its literal in s; "nan", "inf", "null", "true", "false"; kind "obj"     *)
(* with its members, in order, in items; "absent" stands for no value.     *)
(***************************************************************************)
V_str(s)   == [kind |-> "str", s |-> s, items |-> <<>>]
V_num(s)   == [kind |-> "num", s |-> s, items |-> <<>>]
V_lit(k)   == [kind |-> k, s |-> <<>>, items |-> <<>>]
V_obj(its) == [kind |-> "obj", s |-> <<>>, items |-> its]
V_absent   == V_lit("absent")

\* a literal without its sign
Unsigned(s) == IF s # <<>> /\ s[1] \in {"-", "+"} THEN str_from(s, 1) ELSE s

IntPart(body, dot) == IF dot = -1 THEN body ELSE SubSeq(body, 1, dot)
FracPart(body, dot) == IF dot = -1 THEN <<>> ELSE str_from(body, dot + 1)

\* digits (. digits)?, the point at 0-based position dot (-1: none)
DecimalAt(body, dot) ==
    /\ IntPart(body, dot) # <<>>
    /\ AllDigits(IntPart(body, dot))
    /\ (dot # -1 => FracPart(body, dot) # <<>>)
    /\ AllDigits(FracPart(body, dot))

IsDecimal(body) == DecimalAt(body, str_find(body, <<".">>, 0))

NoLeadingZero(body) == ~(Len(body) > 1 /\ body[1] = "0" /\ IsDigit(body[2]))

\* a JSON number literal: -? digits (. digits)?, no leading zero
IsJsonNumber(s) ==
    IF s # <<>> /\ s[1] = "-"
    THEN NoLeadingZero(str_from(s, 1)) /\ IsDecimal(str_from(s, 1))
    ELSE NoLeadingZero(s) /\ IsDecimal(s)

\* a literal float() accepts from a str: sign? digits (. digits)?
IsFloatLiteral(s) == IsDecimal(Unsigned(s))

MagnitudeAt(body, dot) ==
    100 * nat_of_digits(IntPart(body, dot))
    + nat_of_digits(SubSeq(FracPart(body, dot) \o <<"0", "0">>, 1, 2))

Magnitude(body) == MagnitudeAt(body, str_find(body, <<".">>, 0))

\* the number a literal denotes, in hundredths (literals of at most two
\* decimals are exact)
NumberValue(s) ==
    IF s # <<>> /\ s[1] = "-" THEN 0 - Magnitude(str_from(s, 1))
    ELSE Magnitude(Unsigned(s))

(***************************************************************************)
(* json.loads on the reply texts of the model: objects whose members are   *)
(* scalars (strings without escapes, numbers, NaN, Infinity, null, true,   *)
(* false), or one such scalar, with whitespace between the tokens.         *)
(* A parse step yields [ok, val, next]: next is the position after it.     *)
(***************************************************************************)
P_fail == [ok |-> FALSE, val |-> V_absent, next |-> 0]
P_ok(v, n) == [ok |-> TRUE, val |-> v, next |-> n]

FirstOrEnd(t, stop) == IF stop = {} THEN Len(t) + 1 ELSE SetMin(stop)

\* the first position at or after i that holds no whitespace (Len(t) + 1 at the end)
SkipWs(t, i) == FirstOrEnd(t, {j \in i..Len(t) : t[j] \notin Whitespace})

\* whether the characters of lit stand at position i of t
At(t, i, lit) == i + Len(lit) - 1 <= Len(t) /\ SubSeq(t, i, i + Len(lit) - 1) = lit

StringBody(body, next) ==
    IF \E k \in 1..Len(body) : body[k] \in {"\\", "\n", "\t", "\r"}
    THEN P_fail
    ELSE P_ok(V_str(body), next)

StringTo(t, i, close) ==
    IF close = {} THEN P_fail
    ELSE StringBody(SubSeq(t, i + 1, SetMin(close) - 1), SetMin(close) + 1)

ParseString(t, i) ==
    IF i > Len(t) \/ t[i] # "\"" THEN P_fail
    ELSE StringTo(t, i, {j \in (i + 1)..Len(t) : t[j] = "\""})

NumberChars == {"-", ".", "0","1","2","3","4","5","6","7","8","9"}

NumberLexeme(lex, e) == IF IsJsonNumber(lex) THEN P_ok(V_num(lex), e) ELSE P_fail

NumberTo(t, i, e) == NumberLexeme(SubSeq(t, i, e - 1), e)

ParseNumber(t, i) ==
    NumberTo(t, i, FirstOrEnd(t, {j \in i..Len(t) : t[j] \notin NumberChars}))

ParseScalar(t, i) ==
    IF i > Len(t) THEN P_fail
    ELSE IF t[i] = "\"" THEN ParseString(t, i)
    ELSE IF At(t, i, <<"N","a","N">>) THEN P_ok(V_lit("nan"), i + 3)
    ELSE IF At(t, i, <<"I","n","f","i","n","i","t","y">>) THEN P_ok(V_lit("inf"), i + 8)
    ELSE IF At(t, i, <<"-","I","n","f","i","n","i","t","y">>) THEN P_ok(V_lit("inf"), i + 9)
    ELSE IF At(t, i, <<"n","u","l","l">>) THEN P_ok(V_lit("null"), i + 4)
    ELSE IF At(t, i, <<"t","r","u","e">>) THEN P_ok(V_lit("true"), i + 4)
    ELSE IF At(t, i, <<"f","a","l","s","e">>) THEN P_ok(V_lit("false"), i + 5)
    ELSE ParseNumber(t, i)

\* the members of an object from position i (a key) on, acc the members so far
RECURSIVE ParseMembers(_, _, _)

MemberEnd(t, got, d) ==
    IF d > Len(t) THEN P_fail
    ELSE IF t[d] = "}" THEN P_ok(V_obj(got), d + 1)
    ELSE IF t[d] = "," THEN ParseMembers(t, SkipWs(t, d + 1), got)
    ELSE P_fail

MemberValue(t, acc, key, v) ==
    IF ~v.ok THEN P_fail
    ELSE MemberEnd(t, Append(acc, [k |-> key.val.s, v |-> v.val]), SkipWs(t, v.next))

MemberColon(t, acc, key, c) ==
    IF c > Len(t) \/ t[c] # ":" THEN P_fail
    ELSE MemberValue(t, acc, key, ParseScalar(t, SkipWs(t, c + 1)))

MemberKey(t, acc, key) ==
    IF ~key.ok THEN P_fail ELSE MemberColon(t, acc, key, SkipWs(t, key.next))

ParseMembers(t, i, acc) == MemberKey(t, acc, ParseString(t, i))

ObjectFrom(t, j) ==
    IF j > Len(t) THEN P_fail
    ELSE IF t[j] = "}" THEN P_ok(V_obj(<<>>), j + 1)
    ELSE ParseMembers(t, j, <<>>)

ParseObject(t, i) == ObjectFrom(t, SkipWs(t, i + 1))

LoadsEnd(t, r) == IF r.ok /\ SkipWs(t, r.next) = Len(t) + 1 THEN r ELSE P_fail

LoadsFrom(t, i) ==
    LoadsEnd(t, IF i > Len(t) THEN P_fail
                ELSE IF t[i] = "{" THEN ParseObject(t, i)
                ELSE ParseScalar(t, i))

\* json.loads(text): [ok |-> FALSE, ...] stands for the raised JSONDecodeError
json_loads(t) == LoadsFrom(t, SkipWs(t, 1))

LastOf(obj, default, hit) == IF hit = {} THEN default ELSE obj.items[SetMax(hit)].v

\* dict.get(key, default): the last member with that key wins
dict_get(obj, key, default) ==
    LastOf(obj, default, {i \in 1..Len(obj.items) : obj.items[i].k = key})

\* len(dict): the number of distinct keys
dict_len(obj) == Cardinality({obj.items[i].k : i \in 1..Len(obj.items)})

(***************************************************************************)
(* The process-wide state (module globals) and the state of each request   *)
(***************************************************************************)
NumRequests == 2
NumClasses == 4

Requests == 1..NumRequests

VARIABLES
    started,                  \* lifespan has run: requests are accepted
    plant_classes,            \* the class table, {} before startup
    vit_num_labels,           \* the size of the loaded classifier's head (0: vit_model is None)
    gemini_vision_model,      \* TRUE when configured, FALSE for None
    gemini_text_model,        \* TRUE when configured, FALSE for None
    VIT_CONFIDENCE_THRESHOLD, \* percent, in hundredths
    pc,                       \* per request: where its handler is suspended
    endpoint,                 \* per request: "predict" or "analyze"
    upload,                   \* per request: the uploaded file
    vit_result,               \* per request: smart_classify's local vit_result
    gemini_result,            \* per request: smart_classify's local gemini_result
    result,                   \* per request: the handler's local result
    response,                 \* per request: the HTTP response sent
    vision_calls,             \* per request: calls of gemini_vision_model.generate_content_async
    advisor_calls,            \* per request: calls of gemini_text_model.generate_content_async
    vision_in,                \* per request: what the vision call produced
    advisor_in                \* per request: what the advisor call produced

globals == <<started, plant_classes, vit_num_labels, gemini_vision_model,
             gemini_text_model, VIT_CONFIDENCE_THRESHOLD>>
locals == <<pc, endpoint, upload, vit_result, gemini_result, result, response>>
calls == <<vision_calls, advisor_calls, vision_in, advisor_in>>
vars == <<globals, locals, calls>>

(***************************************************************************)
(* Floats: a finite number n (hundredths), nan, or an infinity             *)
(***************************************************************************)
Fin(n) == [kind |-> "fin", n |-> n]
F_nan == [kind |-> "nan", n |-> 0]
F_inf == [kind |-> "inf", n |-> 0]

F_ok(f) == [ok |-> TRUE, val |-> f]
F_raise == [ok |-> FALSE, val |-> F_nan]

\* float(s) of a str, stripped and lowered
FloatOfStr(u) ==
    IF IsFloatLiteral(u) THEN F_ok(Fin(NumberValue(u)))
    ELSE IF Unsigned(u) = <<"n","a","n">> THEN F_ok(F_nan)
    ELSE IF Unsigned(u) \in {<<"i","n","f">>, <<"i","n","f","i","n","i","t","y">>} THEN F_ok(F_inf)
    ELSE F_raise

\* float(v): F_raise stands for the raised ValueError or TypeError
py_float(v) ==
    CASE v.kind = "num" -> F_ok(Fin(NumberValue(v.s)))
      [] v.kind = "nan" -> F_ok(F_nan)
      [] v.kind = "inf" -> F_ok(F_inf)
      [] v.kind = "true" -> F_ok(Fin(100))
      [] v.kind = "false" -> F_ok(Fin(0))
      [] v.kind = "str" -> FloatOfStr(str_lower(str_strip(v.s)))
      [] OTHER -> F_raise

\* f"{v}": how a value prints inside an f-string (a number prints as its
\* literal, which is exact for the integer literals of the model)
py_format(v) ==
    CASE v.kind = "str" -> v.s
      [] v.kind = "num" -> v.s
      [] v.kind = "null" -> <<"N","o","n","e">>
      [] v.kind = "true" -> <<"T","r","u","e">>
      [] v.kind = "false" -> <<"F","a","l","s","e">>
      [] v.kind = "nan" -> <<"n","a","n">>
      [] OTHER -> <<"i","n","f">>

(***************************************************************************)
(* The result dicts                                                        *)
(***************************************************************************)
T_absent == [kind |-> "absent", arg |-> ""]
T_healthy == [kind |-> "text", arg |-> "Your plant looks healthy! Keep up the good care."]
T_unavailable ==
    [kind |-> "text", arg |-> "Treatment advice unavailable - no Gemini API key configured."]
T_could_not(e) == [kind |-> "Could not generate treatment advice: ", arg |-> e]
T_advice(text) == [kind |-> "text", arg |-> text]

MODEL_VIT == "ViT (PlantVillage)"
MODEL_GEMINI == "Gemini Vision"

\* Python's None where a result dict is expected
None ==
    [disease |-> <<>>, confidence |-> Fin(0), class_index |-> 0, model_used |-> "None",
     plant_identified |-> V_absent, treatment |-> T_absent]

\* bool(d) of "if gemini_result:": None is false, a dict with keys is true
Truthy(d) == d.model_used # "None"

(***************************************************************************)
(* Model 1: the ViT classifier.  An image is modelled by what the network  *)
(* computes from it: idx, the argmax of the probabilities, and p, that     *)
(* probability as round(p * 100, 2).                                       *)
(***************************************************************************)
\* line 111: plant_classes.get(str(predicted_idx), f"Unknown ({predicted_idx})")
disease_name(predicted_idx) ==
    dict_get(plant_classes, str_of_nat(predicted_idx),
             V_str(<<"U","n","k","n","o","w","n"," ","(">> \o str_of_nat(predicted_idx) \o <<")">>)).s

classify_with_vit(image) ==
    [disease |-> disease_name(image.idx), confidence |-> Fin(image.p),
     class_index |-> image.idx, model_used |-> MODEL_VIT,
     plant_identified |-> V_absent, treatment |-> T_absent]

(***************************************************************************)
(* Model 2: Gemini Vision, from the reply text on.  The JPEG encoding of   *)
(* the RGB image before the call (lines 130-132) is taken to succeed.      *)
(***************************************************************************)
Fence == <<Backtick, Backtick, Backtick>>

\* lines 163-165
StripTag(inner) ==
    str_strip(IF str_startswith(inner, <<"j","s","o","n">>) THEN str_from(inner, 4) ELSE inner)

\* lines 161-165
Unfence(text) ==
    IF str_contains(text, Fence) THEN StripTag(str_split_second(text, Fence)) ELSE text

\* lines 157-165: the text json.loads is given
reply_json_text(response_text) == Unfence(str_strip(response_text))

\* the label without the branch for "healthy"
full_name_as_reported(plant_name, disease) ==
    py_format(plant_name) \o <<" ",EmDash," ">> \o disease.s

\* lines 174-177
full_name(plant_name, disease) ==
    IF str_lower(disease.s) = <<"h","e","a","l","t","h","y">>
    THEN py_format(plant_name) \o <<" ",EmDash," ","H","e","a","l","t","h","y">>
    ELSE py_format(plant_name) \o <<" ",EmDash," ">> \o disease.s

\* the confidence clamped to 0..100
ResultOfFieldsClamped(plant_name, disease, confidence) ==
    IF ~confidence.ok THEN None
    ELSE IF disease.kind # "str" THEN None
    ELSE [disease |-> full_name(plant_name, disease),
          confidence |-> IF confidence.val.kind # "fin" THEN Fin(0)
                         ELSE IF confidence.val.n > 10000 THEN Fin(10000)
                         ELSE IF confidence.val.n < 0 THEN Fin(0)
                         ELSE confidence.val,
          class_index |-> -1, model_used |-> MODEL_GEMINI,
          plant_identified |-> plant_name, treatment |-> T_absent]

\* lines 171-189, the fields read: a raised exception ends in None
ResultOfFields(plant_name, disease, confidence) ==
    IF ~confidence.ok THEN None                  \* ValueError, TypeError of float()
    ELSE IF disease.kind # "str" THEN None       \* no .lower() on a number, None
    ELSE [disease |-> full_name(plant_name, disease),
          confidence |-> confidence.val,
          class_index |-> -1, model_used |-> MODEL_GEMINI,
          plant_identified |-> plant_name, treatment |-> T_absent]

\* lines 167-171
ResultOfParsed(parsed) ==
    IF ~parsed.ok THEN None                      \* JSONDecodeError
    ELSE IF parsed.val.kind # "obj" THEN None    \* no .get on a str, float, None
    ELSE ResultOfFields(dict_get(parsed.val, <<"p","l","a","n","t">>, V_str(<<"U","n","k","n","o","w","n">>)),
                        dict_get(parsed.val, <<"d","i","s","e","a","s","e">>, V_str(<<"U","n","k","n","o","w","n">>)),
                        py_float(dict_get(parsed.val, <<"c","o","n","f","i","d","e","n","c","e">>, V_num(<<"5","0">>))))

\* lines 157-189: the result of classify_with_gemini_vision once the call has
\* returned response_text
gemini_vision_result(response_text) ==
    ResultOfParsed(json_loads(reply_json_text(response_text)))

(***************************************************************************)
(* The HTTP responses.  FastAPI renders the dict a handler returns with    *)
(* json.dumps(allow_nan=False): a nan or an infinity in it raises          *)
(* ValueError after the handler has returned, and the request ends in a    *)
(* 500.  HTTPException(400) of read_upload_image ends it in a 400.         *)
(***************************************************************************)
JsonResponse(content) ==
    IF content.confidence.kind = "fin"
    THEN [status |-> 200, detail |-> "", body |-> content]
    ELSE [status |-> 500, detail |-> "Internal Server Error", body |-> None]

InvalidImage == [status |-> 400, detail |-> "Invalid image file", body |-> None]

NoResponse == [status |-> 0, detail |-> "", body |-> None]

(***************************************************************************)
(* What the collaborators hand to the service                              *)
(***************************************************************************)
NoImage == [idx |-> 0, p |-> 0]
NoUpload == [decodable |-> FALSE, image |-> NoImage]
NoPayload == [plant |-> V_absent, disease |-> V_absent, confidence |-> V_absent]
NoOutcome == [kind |-> "none", text |-> <<>>, payload |-> NoPayload, wrap |-> "none"]
NoAdvice == [kind |-> "none", arg |-> ""]

\* json.dumps of a scalar, as the remote model writes its reply
RenderValue(v) ==
    CASE v.kind = "str" -> <<"\"">> \o v.s \o <<"\"">>
      [] v.kind = "num" -> v.s
      [] v.kind = "nan" -> <<"N","a","N">>
      [] v.kind = "inf" -> <<"I","n","f","i","n","i","t","y">>
      [] v.kind = "null" -> <<"n","u","l","l">>
      [] v.kind = "true" -> <<"t","r","u","e">>
      [] OTHER -> <<"f","a","l","s","e">>

RenderMember(key, v) ==
    IF v.kind = "absent" THEN <<>> ELSE <<<<"\"">> \o key \o <<"\"",":"," ">> \o RenderValue(v)>>

RECURSIVE JoinMembers(_)
JoinMembers(ms) ==
    IF ms = <<>> THEN <<>>
    ELSE IF Len(ms) = 1 THEN ms[1]
    ELSE ms[1] \o <<","," ">> \o JoinMembers(Tail(ms))

\* the structured reply the prompt asks for, a key left out when absent
Render(payload) ==
    <<"{">> \o JoinMembers(RenderMember(<<"p","l","a","n","t">>, payload.plant)
                       \o RenderMember(<<"d","i","s","e","a","s","e">>, payload.disease)
                       \o RenderMember(<<"c","o","n","f","i","d","e","n","c","e">>, payload.confidence)) \o <<"}">>

\* the reply as the remote model may mark it up
Wrap(wrap, text) ==
    CASE wrap = "plain" -> text
      [] wrap = "fence" -> Fence \o <<"\n">> \o text \o <<"\n">> \o Fence
      [] wrap = "fence_json" -> Fence \o <<"j","s","o","n","\n">> \o text \o <<"\n">> \o Fence
      [] wrap = "fence_JSON" -> Fence \o <<"J","S","O","N","\n">> \o text \o <<"\n">> \o Fence
      [] wrap = "prose_fence" ->
            <<"H","e","r","e",":","\n">> \o Fence \o <<"j","s","o","n","\n">> \o text \o <<"\n">> \o Fence \o <<"\n">>
      [] OTHER -> text

Reply(payload, wrap) ==
    [kind |-> "reply", text |-> Wrap(wrap, Render(payload)), payload |-> payload,
     wrap |-> wrap]

Garbled(text) == [kind |-> "reply", text |-> text, payload |-> NoPayload, wrap |-> "garbled"]

Raised == [kind |-> "raise", text |-> <<>>, payload |-> NoPayload, wrap |-> "none"]

(***************************************************************************)
(* Startup                                                                 *)
(***************************************************************************)
\* the labels of plant_classes.json, index by index
ClassLabels == <<<<"A","p","p","l","e"," ","s","c","a","b">>, <<"A","p","p","l","e"," ","h","e","a","l","t","h","y">>, <<"C","o","r","n"," ","r","u","s","t">>, <<"T","o","m","a","t","o"," ",EmDash," ","L","a","t","e"," ","B","l","i","g","h","t">>>>

\* plant_classes.json: the keys "0" .. "n-1", each with its label
ClassTable ==
    V_obj([i \in 1..NumClasses |->
              [k |-> str_of_nat(i - 1),
               v |-> V_str(ClassLabels[((i - 1) % Len(ClassLabels)) + 1])]])

\* num_labels left at one more than the table holds
num_labels_off_by_one(table) == dict_len(table) + 1

\* num_labels=len(plant_classes): the size of the classifier's head
num_labels(table) == dict_len(table)

Init ==
    /\ started = FALSE
    /\ plant_classes = V_obj(<<>>)
    /\ vit_num_labels = 0
    /\ gemini_vision_model = FALSE
    /\ gemini_text_model = FALSE
    /\ VIT_CONFIDENCE_THRESHOLD = 4000
    /\ pc = [r \in Requests |-> "idle"]
    /\ endpoint = [r \in Requests |-> "none"]
    /\ upload = [r \in Requests |-> NoUpload]
    /\ vit_result = [r \in Requests |-> None]
    /\ gemini_result = [r \in Requests |-> None]
    /\ result = [r \in Requests |-> None]
    /\ response = [r \in Requests |-> NoResponse]
    /\ vision_calls = [r \in Requests |-> 0]
    /\ advisor_calls = [r \in Requests |-> 0]
    /\ vision_in = [r \in Requests |-> NoOutcome]
    /\ advisor_in = [r \in Requests |-> NoAdvice]

\* lifespan, up to its yield; api_key: whether GEMINI_API_KEY is set
lifespan(api_key) ==
    /\ ~started
    /\ started' = TRUE
    /\ plant_classes' = ClassTable
    /\ vit_num_labels' = num_labels(ClassTable)
    /\ gemini_text_model' = api_key
    /\ gemini_vision_model' = api_key
    /\ UNCHANGED <<VIT_CONFIDENCE_THRESHOLD, locals, calls>>

(***************************************************************************)
(* The request handlers.  A handler runs without interruption from one     *)
(* await to the next; each action below is one such stretch.               *)
(***************************************************************************)
\* the test without .lower()
looks_healthy_case_sensitive(res) == str_contains(res.disease, <<"h","e","a","l","t","h","y">>)

\* line 293: "healthy" in result["disease"].lower()
looks_healthy(res) == str_contains(str_lower(res.disease), <<"h","e","a","l","t","h","y">>)

\* the handler returns content: FastAPI sends the response
respond(r, content) ==
    /\ result' = [result EXCEPT ![r] = content]
    /\ response' = [response EXCEPT ![r] = JsonResponse(content)]
    /\ pc' = [pc EXCEPT ![r] = "done"]

\* the handler from the return of smart_classify on, res its result:
\* /predict returns it; /analyze adds the treatment, awaiting the advisor
\* when get_treatment_advice calls it
after_smart_classify(r, res) ==
    IF endpoint[r] = "predict"
    THEN respond(r, res) /\ UNCHANGED advisor_calls
    ELSE IF looks_healthy(res)
    THEN respond(r, [res EXCEPT !.treatment = T_healthy]) /\ UNCHANGED advisor_calls
    ELSE IF ~gemini_text_model
    THEN respond(r, [res EXCEPT !.treatment = T_unavailable]) /\ UNCHANGED advisor_calls
    ELSE /\ result' = [result EXCEPT ![r] = res]
         /\ advisor_calls' = [advisor_calls EXCEPT ![r] = @ + 1]
         /\ pc' = [pc EXCEPT ![r] = "await_advisor"]
         /\ UNCHANGED response

\* a request arrives and its handler awaits file.read()
receive(r, ep, up) ==
    /\ started
    /\ pc[r] = "idle"
    /\ up.decodable => up.image.idx < vit_num_labels
    /\ endpoint' = [endpoint EXCEPT ![r] = ep]
    /\ upload' = [upload EXCEPT ![r] = up]
    /\ pc' = [pc EXCEPT ![r] = "await_read"]
    /\ UNCHANGED <<globals, vit_result, gemini_result, result, response, calls>>

\* the threshold test with > for >=
vit_confident_strict(vit) == vit.confidence.n > VIT_CONFIDENCE_THRESHOLD

\* line 206: the local result is trusted
vit_confident(vit) == vit.confidence.n >= VIT_CONFIDENCE_THRESHOLD

\* the remote result only when it is the more confident one
arbitrate_by_confidence(gemini, vit) ==
    IF Truthy(gemini) /\ gemini.confidence.n >= vit.confidence.n THEN gemini ELSE vit

\* lines 213-219: the remote result when there is one, else the local one
arbitrate(gemini, vit) == IF Truthy(gemini) THEN gemini ELSE vit

\* smart_classify from vit_result on, up to its await of the vision call
smart_classify(r, vit) ==
    /\ vit_result' = [vit_result EXCEPT ![r] = vit]
    /\ IF vit_confident(vit)
       THEN after_smart_classify(r, vit) /\ UNCHANGED vision_calls
       ELSE IF ~gemini_vision_model
       THEN after_smart_classify(r, vit) /\ UNCHANGED vision_calls
       ELSE /\ vision_calls' = [vision_calls EXCEPT ![r] = @ + 1]
            /\ pc' = [pc EXCEPT ![r] = "await_vision"]
            /\ UNCHANGED <<result, response, advisor_calls>>

\* read_upload_image from the return of file.read() on: HTTP 400, or the image
\* and smart_classify up to its await of the vision call
read_upload_image(r) ==
    /\ pc[r] = "await_read"
    /\ IF ~upload[r].decodable
       THEN /\ response' = [response EXCEPT ![r] = InvalidImage]
            /\ pc' = [pc EXCEPT ![r] = "done"]
            /\ UNCHANGED <<vit_result, result, vision_calls, advisor_calls>>
       ELSE smart_classify(r, classify_with_vit(upload[r].image))
    /\ UNCHANGED <<globals, endpoint, upload, gemini_result, vision_in, advisor_in>>

\* line 219 returning gemini_result
fallback_gemini_result(r) == gemini_result[r]

\* vit_result kept in one process-wide slot, not in the request's own frame
fallback_shared_slot(r) == vit_result[1]

\* the local vit_result of smart_classify, returned at line 219
fallback_result(r) == vit_result[r]

\* smart_classify from gemini_result on
vision_done(r, gemini) ==
    /\ gemini_result' = [gemini_result EXCEPT ![r] = gemini]
    /\ after_smart_classify(r, arbitrate(gemini, fallback_result(r)))

\* the vision call ends (a reply, or a raised exception), and smart_classify
\* and the handler run on
vision_returns(r, outcome) ==
    /\ pc[r] = "await_vision"
    /\ vision_in' = [vision_in EXCEPT ![r] = outcome]
    /\ vision_done(r, IF outcome.kind = "raise" THEN None
                      ELSE gemini_vision_result(outcome.text))
    /\ UNCHANGED <<globals, endpoint, upload, vit_result, vision_calls, advisor_in>>

\* lines 244-248: the text, or the message made of the raised exception
treatment_of(advice) ==
    IF advice.kind = "raise" THEN T_could_not(advice.arg) ELSE T_advice(advice.arg)

\* the advisor call ends: get_treatment_advice returns and the handler too
advisor_returns(r, advice) ==
    /\ pc[r] = "await_advisor"
    /\ advisor_in' = [advisor_in EXCEPT ![r] = advice]
    /\ respond(r, [result[r] EXCEPT !.treatment = treatment_of(advice)])
    /\ UNCHANGED <<globals, endpoint, upload, vit_result, gemini_result,
                   vision_calls, advisor_calls, vision_in>>

(***************************************************************************)
(* The inputs of the model                                                 *)
(***************************************************************************)
Endpoints == {"predict", "analyze"}

\* round(p * 100, 2) of the winning class, in hundredths of a percent
LocalConfidences == {2600, 3999, 4000, 8500, 10000}

Images == [idx : 0..NumClasses, p : LocalConfidences]

Uploads == {NoUpload} \cup {[decodable |-> TRUE, image |-> i] : i \in Images}

Plants == {V_str(<<"B","a","s","i","l">>), V_absent}
Conditions == {V_str(<<"H","e","a","l","t","h","y">>), V_str(<<"H","E","A","L","T","H","Y">>), V_str(<<"R","u","s","t">>), V_str(<<"U","n","h","e","a","l","t","h","y">>),
               V_str(<<"M","o","s","t","l","y"," ","H","E","A","L","T","H","Y">>), V_lit("null"), V_absent}
Confidences == {V_num(<<"9","0">>), V_num(<<"0">>), V_num(<<"1","2",".","5">>), V_num(<<"1","5","0">>), V_num(<<"-","5">>),
                V_lit("nan"), V_lit("inf"), V_lit("null"), V_str(<<"9","0">>), V_str(<<"9","0","%">>),
                V_absent}

Payloads ==
    {[plant |-> pl, disease |-> c, confidence |-> V_num(<<"9","0">>)] :
        pl \in Plants, c \in Conditions}
    \cup {[plant |-> V_str(<<"B","a","s","i","l">>), disease |-> c, confidence |-> cf] :
            c \in {V_str(<<"R","u","s","t">>), V_str(<<"h","e","a","l","t","h","y">>)}, cf \in Confidences}
    \cup {[plant |-> V_lit("null"), disease |-> V_str(<<"R","u","s","t">>), confidence |-> V_num(<<"9","0">>)]}

Wraps == {"plain", "fence", "fence_json", "fence_JSON", "prose_fence"}

VisionOutcomes ==
    {Raised}
    \cup {Reply(pay, w) : pay \in Payloads, w \in Wraps}
    \cup {Garbled(<<"I"," ","c","a","n","n","o","t"," ","t","e","l","l",".">>), Garbled(<<"{","\"","p","l","a","n","t","\"",":"," ","\"","B","a","s","i","l","\"",","," ","\"","d","i","s">>), Garbled(<<"9","0">>),
          Garbled(<<>>)}

AdvisorOutcomes ==
    {[kind |-> "text", arg |-> "**Cause:** fungus"], [kind |-> "text", arg |-> ""],
     [kind |-> "raise", arg |-> "503 Service Unavailable"]}

\* the inputs of the runs with several requests in flight
ConcUploads ==
    {NoUpload, [decodable |-> TRUE, image |-> [idx |-> 0, p |-> 2600]],
     [decodable |-> TRUE, image |-> [idx |-> 2, p |-> 3999]],
     [decodable |-> TRUE, image |-> [idx |-> 3, p |-> 8500]]}

ConcVisionOutcomes ==
    {Raised, Reply([plant |-> V_str(<<"B","a","s","i","l">>), disease |-> V_str(<<"R","u","s","t">>),
                    confidence |-> V_num(<<"9","0">>)], "fence_json")}

ConcAdvisorOutcomes ==
    {[kind |-> "text", arg |-> "**Cause:** fungus"],
     [kind |-> "raise", arg |-> "503 Service Unavailable"]}

(***************************************************************************)
(* The specifications: one request with every input, and several requests  *)
(* in flight at once                                                       *)
(***************************************************************************)
Next ==
    \/ \E api_key \in BOOLEAN : lifespan(api_key)
    \/ \E ep \in Endpoints, up \in Uploads : receive(1, ep, up)
    \/ read_upload_image(1)
    \/ \E outcome \in VisionOutcomes : vision_returns(1, outcome)
    \/ \E advice \in AdvisorOutcomes : advisor_returns(1, advice)

Spec == Init /\ [][Next]_vars

NextConc ==
    \/ \E api_key \in BOOLEAN : lifespan(api_key)
    \/ \E r \in Requests, ep \in Endpoints, up \in ConcUploads : receive(r, ep, up)
    \/ \E r \in Requests : read_upload_image(r)
    \/ \E r \in Requests, outcome \in ConcVisionOutcomes : vision_returns(r, outcome)
    \/ \E r \in Requests, advice \in ConcAdvisorOutcomes : advisor_returns(r, advice)

SpecConc == Init /\ [][NextConc]_vars

(***************************************************************************)
(* The handler of a request run alone, as one function of its inputs       *)
(***************************************************************************)
\* smart_classify, lines 195-219
AloneDiagnosis(up, vin) ==
    IF vit_confident(classify_with_vit(up.image)) \/ ~gemini_vision_model
    THEN classify_with_vit(up.image)
    ELSE arbitrate(IF vin.kind = "raise" THEN None ELSE gemini_vision_result(vin.text),
                   classify_with_vit(up.image))

\* get_treatment_advice, lines 225-248
AloneAdvice(ain) == IF ~gemini_text_model THEN T_unavailable ELSE treatment_of(ain)

\* analyze, lines 292-298
AloneAnalyze(res, ain) ==
    [res EXCEPT !.treatment = IF looks_healthy(res) THEN T_healthy ELSE AloneAdvice(ain)]

\* predict and analyze, lines 278-298
AloneResponse(ep, up, vin, ain) ==
    IF ~up.decodable THEN InvalidImage
    ELSE IF ep = "predict" THEN JsonResponse(AloneDiagnosis(up, vin))
    ELSE JsonResponse(AloneAnalyze(AloneDiagnosis(up, vin), ain))

(***************************************************************************)
(* The claims                                                              *)
(***************************************************************************)
\* smart_classify has returned to the handler of request r
Classified(r) == pc[r] \in {"await_advisor", "done"} /\ upload[r].decodable

\* the Diagnosis in a result dict: the dict without the treatment /analyze adds
Diagnosis(res) == [res EXCEPT !.treatment = T_absent]

\* what the local classifier says of the upload of request r
LocalOf(r) ==
    [disease |-> vit_result[r].disease, confidence |-> Fin(upload[r].image.p),
     class_index |-> upload[r].image.idx, model_used |-> "ViT (PlantVillage)",
     plant_identified |-> V_absent, treatment |-> T_absent]

\* "healthy" in any letter case at position i of s
HealthyAt(s, i) ==
    \A k \in 1..7 : s[i + k - 1] \in {(<<"h","e","a","l","t","h","y">>)[k], (<<"H","E","A","L","T","H","Y">>)[k]}

MentionsHealthy(s) == \E i \in 1..(Len(s) - 6) : HealthyAt(s, i)

IsHealthyWord(s) == Len(s) = 7 /\ HealthyAt(s, 1)

\* C1: when the local confidence is at least 40.0 the result is the local
\* result unchanged, tagged with the local marker, and the vision model is
\* never called, with or without credentials.
C1_HighConfidenceLocal ==
    \A r \in Requests :
        (Classified(r) /\ upload[r].image.p >= 4000) =>
            /\ Diagnosis(result[r]) = vit_result[r]
            /\ Diagnosis(result[r]) = LocalOf(r)
            /\ vision_calls[r] = 0
            /\ vision_in[r] = NoOutcome

C1_Witness ==
    \E r \in Requests :
        /\ Classified(r) /\ upload[r].image.p = 4000
        /\ gemini_vision_model
        /\ result[r].model_used = "ViT (PlantVillage)"

\* C2: when the local confidence is below 40.0 and the vision call yields a
\* result, that result is returned, tagged with the remote marker and class
\* index -1, whatever its confidence; the local result is not returned.
C2_RemoteOverrides ==
    \A r \in Requests :
        (Classified(r) /\ upload[r].image.p < 4000 /\ Truthy(gemini_result[r])) =>
            /\ Diagnosis(result[r]) = gemini_result[r]
            /\ result[r].model_used = "Gemini Vision"
            /\ result[r].class_index = -1
            /\ Diagnosis(result[r]) # vit_result[r]

C2_Witness ==
    \E r \in Requests :
        /\ Classified(r) /\ upload[r].image.p = 3999
        /\ vision_in[r].payload.confidence = V_num(<<"0">>)
        /\ result[r].model_used = "Gemini Vision"
        /\ result[r].confidence = Fin(0)

\* C3: when the local confidence is below 40.0 and the vision path yields
\* nothing (no credentials, a raised error, a reply that is no structured
\* reply), the result is the local result of step 1 unchanged, tagged local.
C3_FallbackToLocal ==
    \A r \in Requests :
        (Classified(r) /\ upload[r].image.p < 4000) =>
            /\ (~gemini_vision_model \/ vision_in[r].kind = "raise"
                    \/ vision_in[r].wrap = "garbled")
                 => ~Truthy(gemini_result[r])
            /\ ~Truthy(gemini_result[r]) =>
                 /\ Diagnosis(result[r]) = vit_result[r]
                 /\ Diagnosis(result[r]) = LocalOf(r)

C3_Witness ==
    \E r \in Requests :
        /\ Classified(r) /\ upload[r].image.p < 4000
        /\ vision_in[r].wrap = "garbled"
        /\ result[r].model_used = "ViT (PlantVillage)"

\* C4: a request ends in an error response exactly when its upload cannot be
\* decoded (then 400); every decodable upload ends in a 200 carrying one
\* Diagnosis, whatever the collaborators do.
C4_OnlyDecodeErrors ==
    \A r \in Requests :
        pc[r] = "done" =>
            /\ response[r].status # 200 <=> ~upload[r].decodable
            /\ ~upload[r].decodable => response[r] = InvalidImage
            /\ upload[r].decodable =>
                 /\ response[r].status = 200
                 /\ Diagnosis(response[r].body) \in {vit_result[r], gemini_result[r]}
                 /\ Truthy(response[r].body)

\* C5 as claimed: every Diagnosis has a confidence within [0, 100].
C5_ConfidenceInRange ==
    \A r \in Requests :
        Classified(r) =>
            /\ result[r].confidence.kind = "fin"
            /\ result[r].confidence.n >= 0
            /\ result[r].confidence.n <= 10000

\* what float() makes of the confidence the remote model reported
ReportedConfidence(payload) ==
    py_float(IF payload.confidence.kind = "absent" THEN V_num(<<"5","0">>)
             ELSE payload.confidence).val

\* C5, amended: a local Diagnosis has a confidence within [0, 100]; a remote
\* Diagnosis carries the confidence the remote model reported, as float()
\* reads it and unchanged (50 when the reply has none).
C5_ConfidenceAsReported ==
    \A r \in Requests :
        Classified(r) =>
            /\ result[r].model_used = "ViT (PlantVillage)" =>
                 /\ result[r].confidence.kind = "fin"
                 /\ result[r].confidence.n >= 0
                 /\ result[r].confidence.n <= 10000
            /\ (result[r].model_used = "Gemini Vision" /\ vision_in[r].wrap # "garbled") =>
                 result[r].confidence = ReportedConfidence(vision_in[r].payload)

C5_Witness ==
    \E r \in Requests :
        /\ Classified(r)
        /\ result[r].model_used = "Gemini Vision"
        /\ vision_in[r].payload.confidence = V_num(<<"1","5","0">>)
        /\ result[r].confidence = Fin(15000)

\* C6: in /analyze a label that contains "healthy" in any letter case gets the
\* fixed message without a call of the advisor; any other label gets what
\* get_treatment_advice returns for it.
C6_HealthySkipsAdvisor ==
    \A r \in Requests :
        (pc[r] = "done" /\ upload[r].decodable /\ endpoint[r] = "analyze") =>
            IF MentionsHealthy(result[r].disease)
            THEN result[r].treatment = T_healthy /\ advisor_calls[r] = 0
            ELSE IF gemini_text_model
            THEN /\ advisor_calls[r] = 1
                 /\ advisor_in[r].kind = "text" =>
                        result[r].treatment = [kind |-> "text", arg |-> advisor_in[r].arg]
                 /\ advisor_in[r].kind = "raise" =>
                        result[r].treatment =
                            [kind |-> "Could not generate treatment advice: ",
                             arg |-> advisor_in[r].arg]
            ELSE result[r].treatment = T_unavailable /\ advisor_calls[r] = 0

C6_Witness ==
    \E r \in Requests :
        /\ pc[r] = "done" /\ endpoint[r] = "analyze"
        /\ result[r].disease = <<"B","a","s","i","l"," ",EmDash," ","M","o","s","t","l","y"," ","H","E","A","L","T","H","Y">>
        /\ gemini_text_model
        /\ result[r].treatment = T_healthy

\* C7: with several requests in flight, no step of a handler writes the
\* process-wide state, and each response is the one the request gets alone.
C7_RequestsIsolated ==
    /\ [](\A r \in Requests :
             pc[r] = "done" =>
                 response[r] = AloneResponse(endpoint[r], upload[r], vision_in[r],
                                             advisor_in[r]))
    /\ [][started => UNCHANGED globals]_vars

C7_Witness ==
    /\ pc[1] = "await_vision"
    /\ pc[2] = "done" /\ vision_in[2].kind = "raise"
    /\ upload[1] # upload[2]
    /\ response[2].status = 200

\* C8: a local Diagnosis carries a class index that is a key of the class
\* table, and the label under that key is the disease returned.
C8_LocalIndexInTable ==
    \A r \in Requests :
        (Classified(r) /\ result[r].model_used = "ViT (PlantVillage)") =>
            /\ result[r].class_index \in 0..(dict_len(plant_classes) - 1)
            /\ \E i \in 1..Len(plant_classes.items) :
                   /\ plant_classes.items[i].k = str_of_nat(result[r].class_index)
                   /\ plant_classes.items[i].v = V_str(result[r].disease)

C8_Witness ==
    \E r \in Requests :
        /\ Classified(r) /\ result[r].model_used = "ViT (PlantVillage)"
        /\ upload[r].image.p < 4000 /\ vision_in[r].kind = "raise"
        /\ result[r].class_index = 3
        /\ result[r].disease = <<"T","o","m","a","t","o"," ",EmDash," ","L","a","t","e"," ","B","l","i","g","h","t">>

\* C9: a parsed reply with plant p and condition c gives the label
\* "p - Healthy" when c is "healthy" in any letter case, else "p - c" with c
\* unchanged (the dash an em dash); plant_identified is p.
C9_LabelComposition ==
    \A r \in Requests :
        (/\ Classified(r) /\ result[r].model_used = "Gemini Vision"
         /\ vision_in[r].payload.plant.kind = "str"
         /\ vision_in[r].payload.disease.kind = "str") =>
            /\ result[r].plant_identified = vision_in[r].payload.plant
            /\ result[r].disease =
                 vision_in[r].payload.plant.s \o <<" ", EmDash, " ">>
                 \o (IF IsHealthyWord(vision_in[r].payload.disease.s) THEN <<"H","e","a","l","t","h","y">>
                     ELSE vision_in[r].payload.disease.s)

C9_Witness ==
    \E r \in Requests :
        /\ Classified(r) /\ result[r].model_used = "Gemini Vision"
        /\ vision_in[r].payload.disease = V_str(<<"H","E","A","L","T","H","Y">>)
        /\ result[r].disease = <<"B","a","s","i","l"," ",EmDash," ","H","e","a","l","t","h","y">>

\* C10: a structured reply inside a code fence, with or without a language
\* tag in any letter case, gives the result the bare reply gives.
C10_FenceStripped ==
    \A r \in Requests :
        (/\ Classified(r) /\ vision_in[r].kind = "reply"
         /\ vision_in[r].wrap \in {"fence", "fence_json", "fence_JSON"}
         /\ Truthy(gemini_vision_result(Render(vision_in[r].payload)))) =>
            gemini_result[r] = gemini_vision_result(Render(vision_in[r].payload))

=============================================================================
